---- MODULE Spec2Model ----
(***************************************************************************)
(* ContextViewer: the tool-call server (mcp_server.py) and the HTTP server *)
(* (server.py) and the state document they share through the file          *)
(* ~/.context-viewer-state.json.                                           *)
(*                                                                         *)
(* Spec      the tool-call server's handlers, each one atomic between two  *)
(*           await points (asyncio), the HTTP server's selection-confirm   *)
(*           handler, a process that calls save_state or writes the state  *)
(*           file directly (as test_state_sync.py does), and the clock.    *)
(* ConcSpec  two processes that run get_state / save_state and the tools   *)
(*           built on them one system call at a time.                      *)
(* WaitSpec, WaitLive, ReadSpec   get_selection in wait mode.              *)
(* StoreSpec   save_state and get_state alone, with saves that fail.       *)
(* NavSpec, ViewerSpec   the navigate tools; open_viewer and its child.    *)
(* LifeSpec    ViewerSpec with the end of main and stop_http_server.       *)
(* PathSpec    the tools and endpoints that take a path.                   *)
(* ToolSpec    call_tool with every tool name and arguments value.         *)
(* NavArgSpec  the navigate tools with parameters missing, empty or zero.  *)
(* PollSpec, CancelSpec   reads that follow a save; a cancelled wait.      *)
(* RecoverSpec   get_state on content that is no document.                 *)
(* GatewaySpec   listings and file reads of both servers.                  *)
(* LatexSpec     render_latex's compiler run, clean-up and result.         *)
(*                                                                         *)
(* File renames follow POSIX: rename and replace overwrite the target.     *)
(***************************************************************************)
EXTENDS Integers, Sequences, FiniteSets, TLC

(***************************************************************************)
(* Bounds of the model.                                                    *)
(***************************************************************************)
MaxTime == 2        \* the clock runs over 0..MaxTime
MaxOps == 1         \* ConcSpec: tool calls one process makes
ChunkTokens == 2    \* ConcSpec: tokens one write system call carries
MaxDepth == 3       \* PathSpec, GatewaySpec: components in a path argument

(***************************************************************************)
(* JSON values.  A mapping is a record; a scalar is wrapped in a record    *)
(* with one field naming its type, so that values of different JSON types  *)
(* stay comparable.                                                        *)
(***************************************************************************)
Absent == [absent |-> TRUE]          \* the key is not in the mapping
Null == [null |-> TRUE]              \* JSON null
Str(s) == [str |-> s]
Num(n) == [num |-> n]

IsMapping(v) == DOMAIN v \cap {"absent", "null", "str", "num"} = {}

\* Python truthiness of a JSON value, as `if selection` / `not selection` sees it
Truthy(v) ==
    IF v = Absent \/ v = Null THEN FALSE
    ELSE IF "str" \in DOMAIN v THEN v.str # ""
    ELSE IF "num" \in DOMAIN v THEN v.num # 0
    ELSE DOMAIN v # {}

Keys == {"server_url", "server_pid", "selection", "navigation", "theme"}
KeyOrder == <<"server_url", "server_pid", "selection", "navigation", "theme">>

\* the state document: a mapping; a key that is not in it maps to Absent
EmptyDoc == [k \in Keys |-> Absent]
Has(doc, k) == doc[k] # Absent
Pop(doc, k) == [doc EXCEPT ![k] = Absent]
Put(doc, k, v) == [doc EXCEPT ![k] = v]

\* state.get("selection"): None for a missing key
DocGet(doc, k) == IF Has(doc, k) THEN doc[k] ELSE Null

(***************************************************************************)
(* The files.  A file's content is a sequence of tokens: the two braces of *)
(* a JSON object, one token per key/value pair, text that is no JSON.      *)
(***************************************************************************)
STATE_FILE == "state"
temp_file == "tmp"
backup_path == "backup"
Paths == {STATE_FILE, temp_file, backup_path}

NoFile == [exists |-> FALSE, data |-> <<>>]
File(data) == [exists |-> TRUE, data |-> data]

LBrace == [k |-> "{", v |-> Absent]
RBrace == [k |-> "}", v |-> Absent]
Garbage == [k |-> "invalid json", v |-> Absent]
BadBytes == [k |-> "undecodable bytes", v |-> Absent]
JsonArray == [k |-> "[1]", v |-> Absent]           \* JSON that is no object
Pad == [k |-> "NUL", v |-> Absent]
Entry(k, v) == [k |-> k, v |-> v]

RECURSIVE DumpKeys(_, _)
DumpKeys(doc, i) ==
    IF i > Len(KeyOrder) THEN <<>>
    ELSE (IF Has(doc, KeyOrder[i]) THEN <<Entry(KeyOrder[i], doc[KeyOrder[i]])>> ELSE <<>>)
         \o DumpKeys(doc, i + 1)

\* json.dump(state, f, indent=2)
JsonDump(doc) == <<LBrace>> \o DumpKeys(doc, 1) \o <<RBrace>>

\* the pairs of an object, read left to right: a repeated key keeps the last value
RECURSIVE LoadPairs(_, _, _)
LoadPairs(data, i, doc) ==
    IF i >= Len(data) THEN doc
    ELSE LoadPairs(data, i + 1, Put(doc, data[i].k, data[i].v))

\* json.load(f): the text is an object exactly when it is an opening brace,
\* pairs, and a closing brace with nothing after it
JsonLoad(data) ==
    IF \E i \in 1..Len(data) : data[i] = BadBytes
    THEN [err |-> "UnicodeDecodeError", doc |-> EmptyDoc]
    ELSE IF data = <<JsonArray>> THEN [err |-> "not_a_dict", doc |-> EmptyDoc]
    ELSE
    IF /\ Len(data) >= 2
       /\ data[1] = LBrace
       /\ data[Len(data)] = RBrace
       /\ \A i \in 2..(Len(data) - 1) : data[i].k \in Keys
    THEN [err |-> "none", doc |-> LoadPairs(data, 2, EmptyDoc)]
    ELSE [err |-> "JSONDecodeError", doc |-> EmptyDoc]

\* what the state file holds, read without get_state's repairs
Parses(f) == f[STATE_FILE].exists /\ JsonLoad(f[STATE_FILE].data).err = "none"
Corrupted(f) == f[STATE_FILE].exists /\ JsonLoad(f[STATE_FILE].data).err = "JSONDecodeError"
Malformed(f) == f[STATE_FILE].exists /\ JsonLoad(f[STATE_FILE].data).err # "none"
StoredDoc(f) == IF Parses(f) THEN JsonLoad(f[STATE_FILE].data).doc ELSE EmptyDoc
StoredSelection(f) == StoredDoc(f)["selection"]

(***************************************************************************)
(* save_state and get_state, each as one uninterrupted call.               *)
(***************************************************************************)
\* save_state that leaves the state file as it is
save_state_NoReplace(fs, state) == [fs EXCEPT ![temp_file] = File(JsonDump(state))]

\* save_state: write the temporary file, then replace the state file by it
save_state(fs, state) ==
    [fs EXCEPT ![STATE_FILE] = File(JsonDump(state)), ![temp_file] = NoFile]

required_fields == {"file_path", "start_line", "end_line", "selected_text", "timestamp"}

\* `field in sel`: a key test on a mapping, a substring test on a string,
\* a TypeError on null and on a number
InRaises(sel) == "null" \in DOMAIN sel \/ "num" \in DOMAIN sel
FieldIn(field, sel) == IsMapping(sel) /\ field \in DOMAIN sel
AllRequired_Any(sel) == \E field \in required_fields : FieldIn(field, sel)
AllRequired(sel) == \A field \in required_fields : FieldIn(field, sel)

\* get_state that deletes an unreadable file instead of keeping it
get_state_NoBackup(fs) ==
    IF ~fs[STATE_FILE].exists THEN [ret |-> EmptyDoc, fs |-> fs]
    ELSE LET loaded == JsonLoad(fs[STATE_FILE].data)
             state == loaded.doc
         IN IF loaded.err = "JSONDecodeError"
            THEN [ret |-> EmptyDoc, fs |-> [fs EXCEPT ![STATE_FILE] = NoFile]]
            ELSE IF loaded.err # "none" THEN [ret |-> EmptyDoc, fs |-> fs]
            ELSE IF ~Has(state, "selection") THEN [ret |-> state, fs |-> fs]
            ELSE IF InRaises(state["selection"]) THEN [ret |-> EmptyDoc, fs |-> fs]
            ELSE IF AllRequired(state["selection"]) THEN [ret |-> state, fs |-> fs]
            ELSE [ret |-> Pop(state, "selection"),
                  fs |-> save_state(fs, Pop(state, "selection"))]

\* get_state that reads the copy kept at the backup path instead
get_state_FromBackup(fs) ==
    IF ~fs[backup_path].exists THEN [ret |-> EmptyDoc, fs |-> fs]
    ELSE [ret |-> JsonLoad(fs[backup_path].data).doc, fs |-> fs]

\* get_state: the document it returns and the files it leaves
get_state(fs) ==
    IF ~fs[STATE_FILE].exists THEN [ret |-> EmptyDoc, fs |-> fs]
    ELSE LET loaded == JsonLoad(fs[STATE_FILE].data)
             state == loaded.doc
         IN IF loaded.err = "JSONDecodeError"
            THEN [ret |-> EmptyDoc,
                  fs |-> [fs EXCEPT ![backup_path] = fs[STATE_FILE],
                                    ![STATE_FILE] = NoFile]]
            ELSE IF loaded.err # "none" THEN [ret |-> EmptyDoc, fs |-> fs]
            ELSE IF ~Has(state, "selection") THEN [ret |-> state, fs |-> fs]
            ELSE IF InRaises(state["selection"]) THEN [ret |-> EmptyDoc, fs |-> fs]
            ELSE IF AllRequired(state["selection"]) THEN [ret |-> state, fs |-> fs]
            ELSE [ret |-> Pop(state, "selection"),
                  fs |-> save_state(fs, Pop(state, "selection"))]

\* the steps of save_state that can raise
SaveSteps == {"open", "dump", "replace"}

RECURSIVE Prefixes(_, _)
Prefixes(data, n) ==
    IF n < 0 THEN {} ELSE {SubSeq(data, 1, n)} \cup Prefixes(data, n - 1)

\* a save_state that writes the state file in place, without a temporary file
save_state_fails_InPlace(fs, state, step, written) ==
    [raised |-> FALSE,
     fs |-> IF step = "open" THEN fs
            ELSE [fs EXCEPT ![STATE_FILE] = File(written)]]

\* save_state when `step` raises: `written` is what json.dump got into the
\* temporary file before it raised; except Exception logs and returns
save_state_fails(fs, state, step, written) ==
    [raised |-> FALSE,
     fs |-> IF step = "open" THEN fs
            ELSE IF step = "dump" THEN [fs EXCEPT ![temp_file] = File(written)]
            ELSE [fs EXCEPT ![temp_file] = File(JsonDump(state))]]

(***************************************************************************)
(* The tool-call server's handlers as functions of the files and the clock *)
(***************************************************************************)
HTTP_PORT == 8765
ServerUrl == Str("http://localhost:8765")
PollTicks == 1      \* asyncio.sleep(0.5): one tick of the clock is half a second

\* selection.get("timestamp", 0)
SelTimestamp(selection) ==
    IF "timestamp" \in DOMAIN selection THEN selection.timestamp ELSE 0

Result(kind, sel, fs) == [res |-> kind, sel |-> sel, fs |-> fs]

\* the clear_after_read argument: not given, true, false
ClearArgs == {"not_given", "true", "false"}

\* a default that clears in both modes
ClearAfterRead_DefaultTrue(given, waiting) ==
    IF given = "not_given" THEN TRUE ELSE given = "true"

\* arguments.get("clear_after_read", wait)
ClearAfterRead(given, waiting) ==
    IF given = "not_given" THEN waiting ELSE given = "true"

\* get_selection, immediate mode, with the clear left out
get_selection_immediate_NoClear(fs, clear_after_read) ==
    LET got == get_state(fs)
        selection == DocGet(got.ret, "selection")
    IN IF ~Truthy(selection) THEN Result("none", Absent, got.fs)
       ELSE Result("selection", selection, got.fs)

\* get_selection, immediate mode
get_selection_immediate(fs, clear_after_read) ==
    LET got == get_state(fs)
        state == got.ret
        selection == DocGet(state, "selection")
    IN IF ~Truthy(selection) THEN Result("none", Absent, got.fs)
       ELSE IF clear_after_read
            THEN Result("selection", selection, save_state(got.fs, Pop(state, "selection")))
            ELSE Result("selection", selection, got.fs)

\* Fresh with the comparison not strict
Fresh_NotStrict(selection, start_time) ==
    Truthy(selection) /\ SelTimestamp(selection) >= start_time

\* a selection that satisfies a wait started at start_time
Fresh(selection, start_time) ==
    Truthy(selection) /\ SelTimestamp(selection) > start_time

\* a wait-mode pass whose clear writes a document with nothing but what it drops
get_selection_poll_DropsKeys(fs, start_time, clear_after_read) ==
    LET got == get_state(fs)
        selection == DocGet(got.ret, "selection")
    IN IF Fresh(selection, start_time)
       THEN IF clear_after_read
            THEN Result("selection", selection, save_state(got.fs, EmptyDoc))
            ELSE Result("selection", selection, got.fs)
       ELSE Result("sleep", Absent, got.fs)

\* a wait-mode pass that removes the selection it does not return
get_selection_poll_ClearsStale(fs, start_time, clear_after_read) ==
    LET got == get_state(fs)
        selection == DocGet(got.ret, "selection")
    IN IF Fresh(selection, start_time)
       THEN IF clear_after_read
            THEN Result("selection", selection, save_state(got.fs, Pop(got.ret, "selection")))
            ELSE Result("selection", selection, got.fs)
       ELSE Result("sleep", Absent, save_state(got.fs, Pop(got.ret, "selection")))

\* get_selection, wait mode: one pass of the loop body that finds a selection
\* or goes to sleep
get_selection_poll(fs, start_time, clear_after_read) ==
    LET got == get_state(fs)
        state == got.ret
        selection == DocGet(state, "selection")
    IN IF Fresh(selection, start_time)
       THEN IF clear_after_read
            THEN Result("selection", selection, save_state(got.fs, Pop(state, "selection")))
            ELSE Result("selection", selection, got.fs)
       ELSE Result("sleep", Absent, got.fs)

\* the loop condition of a loop that only a selection ends
WaitOpen_Forever(t, start_time, timeout) == t >= start_time

\* the loop condition: time.time() - start_time < timeout
WaitOpen(t, start_time, timeout) == t - start_time < timeout

\* clear_selection
clear_selection(fs) ==
    LET got == get_state(fs)
    IN Result("cleared", Absent, save_state(got.fs, Pop(got.ret, "selection")))

NavigationCommand(command, path, target, t) ==
    [command |-> command, file_path |-> path, target |-> target,
     timestamp |-> t, executed |-> FALSE]

\* navigate_to_line / navigate_to_text / navigate_to_function with valid arguments
navigate(fs, command, path, target, t) ==
    LET got == get_state(fs)
    IN Result("navigated", Absent,
              save_state(got.fs, Put(got.ret, "navigation",
                                     NavigationCommand(command, path, target, t))))

\* start_http_server: the document written when the child is spawned
ServerDoc(pid) == [EmptyDoc EXCEPT !["server_url"] = ServerUrl, !["server_pid"] = Num(pid)]

\* start_http_server that spawns whether or not a handle is held
start_http_server_Always(fs, process) ==
    [process |-> 1, fs |-> save_state(fs, ServerDoc(1))]

start_http_server(fs, process) ==
    IF process # 0 THEN [process |-> process, fs |-> fs]
    ELSE [process |-> 1, fs |-> save_state(fs, ServerDoc(1))]

\* stop_http_server that does not kill a child that outlives the wait
stop_http_server_NoKill(process, ignores_sigterm) ==
    IF process = 0 THEN [process |-> 0, child |-> "none", killed |-> FALSE]
    ELSE [process |-> 0, killed |-> FALSE,
          child |-> IF process = 1 /\ ignores_sigterm THEN "running" ELSE "exited"]

\* stop_http_server: terminate(), wait(timeout=5), kill() on TimeoutExpired,
\* HTTP_SERVER_PROCESS = None; the child may ignore SIGTERM
stop_http_server(process, ignores_sigterm) ==
    IF process = 0 THEN [process |-> 0, child |-> "none", killed |-> FALSE]
    ELSE [process |-> 0, child |-> "exited",
          killed |-> process = 1 /\ ignores_sigterm]

(***************************************************************************)
(* The served directory tree.  A path is a sequence of names and a name a  *)
(* sequence of characters, so that str(path) is a sequence of characters   *)
(* and startswith compares characters, as the code's test does.            *)
(***************************************************************************)
DotDot == <<".", ".">>
Home == <<"h">>
Proj == <<"p">>
Proj2 == <<"p", "2">>       \* a sibling whose name begins with the root's name
Ext == <<"e">>
Link == <<"l">>
TexFile == <<"f">>          \* a regular file, f.tex
Bin == <<"b">>              \* a regular file with a NUL byte in it
DotGit == <<".", "g">>      \* a hidden entry
Spaced == <<"a", " ", "b">> \* a regular file with a space in its name

BASE_DIR == <<Home, Proj>>
SymlinkAt == <<Home, Proj, Link>>       \* a symbolic link inside the root
SymlinkTarget == <<Home, Ext>>          \* to a directory outside it
Dirs == {<<Home>>, BASE_DIR, <<Home, Proj2>>, <<Home, Ext>>}
RegularFiles ==
    {d \o <<TexFile>> : d \in {BASE_DIR, <<Home, Proj2>>, <<Home, Ext>>}}
        \cup {BASE_DIR \o <<name>> : name \in {Bin, DotGit, Spaced}}

\* the bytes of a regular file
NUL == "\\x00"
Bytes(file) == IF file[Len(file)] = Bin THEN <<"x", NUL>> ELSE <<"x">>

\* a.startswith(b), on characters or on names
StartsWith(a, b) == Len(a) >= Len(b) /\ SubSeq(a, 1, Len(b)) = b

\* str(path)
RECURSIVE PathStr(_)
PathStr(names) ==
    IF names = <<>> THEN <<>> ELSE <<"/">> \o Head(names) \o PathStr(Tail(names))

Parent(names) == IF names = <<>> THEN names ELSE SubSeq(names, 1, Len(names) - 1)

\* Path.resolve() and what the operating system opens: '..' and symbolic
\* links are followed
RECURSIVE ResolveFrom(_, _)
ResolveFrom(cur, rest) ==
    IF rest = <<>> THEN cur
    ELSE IF Head(rest) = DotDot THEN ResolveFrom(Parent(cur), Tail(rest))
    ELSE IF Append(cur, Head(rest)) = SymlinkAt THEN ResolveFrom(SymlinkTarget, Tail(rest))
    ELSE ResolveFrom(Append(cur, Head(rest)), Tail(rest))
Resolve(names) == ResolveFrom(<<>>, names)

\* os.path.normpath: '..' is removed by the text alone
RECURSIVE NormFrom(_, _)
NormFrom(cur, rest) ==
    IF rest = <<>> THEN cur
    ELSE IF Head(rest) = DotDot THEN NormFrom(Parent(cur), Tail(rest))
    ELSE NormFrom(Append(cur, Head(rest)), Tail(rest))
normpath(names) == NormFrom(<<>>, names)

\* the entries of a directory
Children(dir) ==
    {e \in Dirs \cup RegularFiles \cup {SymlinkAt} : Parent(e) = dir}

Outcome(res, at) == [res |-> res, at |-> at]

\* the characters of the names, in code point order
CharOrder == <<" ", ".", "2", "a", "b", "e", "f", "g", "h", "l", "p">>
Code(c) == CHOOSE i \in 1..Len(CharOrder) : CharOrder[i] = c

\* a < b on strings
RECURSIVE StrLess(_, _)
StrLess(a, b) ==
    IF b = <<>> THEN FALSE
    ELSE IF a = <<>> THEN TRUE
    ELSE IF Head(a) # Head(b) THEN Code(Head(a)) < Code(Head(b))
    ELSE StrLess(Tail(a), Tail(b))

\* sorted(...) of the entries of one directory: by name
RECURSIVE sorted(_)
sorted(entries) ==
    IF entries = {} THEN <<>>
    ELSE LET first == CHOOSE e \in entries :
                          \A o \in entries \ {e} : StrLess(e[Len(e)], o[Len(o)])
         IN <<first>> \o sorted(entries \ {first})

\* item.name.startswith(".")
Hidden(entry) == Head(entry[Len(entry)]) = "."

\* is_dir and isdir follow symbolic links
IsDir(entry) == Resolve(entry) \in Dirs

\* str(item.relative_to(BASE_DIR)) / os.path.relpath(item_path, base_dir) for
\* an entry below the root: the names joined by "/"
RECURSIVE Join(_)
Join(names) ==
    IF names = <<>> THEN <<>>
    ELSE IF Len(names) = 1 THEN Head(names)
    ELSE Head(names) \o <<"/">> \o Join(Tail(names))
RelPath(entry) ==
    IF StartsWith(entry, BASE_DIR) THEN Join(SubSeq(entry, Len(BASE_DIR) + 1, Len(entry)))
    ELSE <<".", ".", "/">> \o Join(SubSeq(entry, Len(BASE_DIR), Len(entry)))

\* urllib.parse.quote: a character that is not a letter, a digit or one of
\* _ . - ~ / becomes its percent escape
RECURSIVE quote(_)
quote(str) ==
    IF str = <<>> THEN <<>>
    ELSE (IF Head(str) = " " THEN <<"%", "2", "0">> ELSE <<Head(str)>>) \o quote(Tail(str))

\* the items of a listing: dir is the directory listed, under the names of
\* the path that was asked for (as_dir), which a symbolic link makes differ
RECURSIVE Items(_, _)
Items(entries, quoted) ==
    IF entries = <<>> THEN <<>>
    ELSE LET e == Head(entries)
         IN IF Hidden(e) THEN Items(Tail(entries), quoted)
            ELSE <<[name |-> e[Len(e)],
                    path |-> IF quoted THEN quote(RelPath(e)) ELSE RelPath(e),
                    is_dir |-> IsDir(e)]>> \o Items(Tail(entries), quoted)

\* the entries of the directory real, named below the path as_dir
EntriesAs(real, as_dir) == {as_dir \o <<e[Len(e)]>> : e \in Children(real)}

\* list_files(path); path.lstrip("/") leaves the names of the argument
list_files(path) ==
    LET full_path == Resolve(BASE_DIR \o path)
    IN IF ~StartsWith(PathStr(full_path), PathStr(BASE_DIR)) THEN Outcome("denied", full_path)
       ELSE IF full_path \notin Dirs \cup RegularFiles THEN Outcome("not_found", full_path)
       ELSE IF full_path \notin Dirs THEN Outcome("not_a_directory", full_path)
       ELSE IF \E item \in Children(full_path) : ~Hidden(item) /\ ~StartsWith(item, BASE_DIR)
            THEN Outcome("relative_to_error", full_path)
       ELSE [res |-> "listed", at |-> full_path,
             items |-> Items(sorted(Children(full_path)), FALSE)]

\* read_file(path)
read_file(path) ==
    LET full_path == Resolve(BASE_DIR \o path)
    IN IF ~StartsWith(PathStr(full_path), PathStr(BASE_DIR)) THEN Outcome("denied", full_path)
       ELSE IF full_path \notin RegularFiles THEN Outcome("not_a_file", full_path)
       ELSE [res |-> "read", at |-> full_path,
             is_text |-> \A i \in 1..Len(Bytes(full_path)) : Bytes(full_path)[i] # NUL]

\* render_latex(path): pdflatex runs in the directory of the file
render_latex(path) ==
    LET full_path == Resolve(BASE_DIR \o path)
    IN IF ~StartsWith(PathStr(full_path), PathStr(BASE_DIR)) THEN Outcome("denied", full_path)
       ELSE IF full_path \notin RegularFiles THEN Outcome("not_a_tex_file", full_path)
       ELSE Outcome("compiled", full_path)

\* FileServerHandler.handle_files_api: the test is on the normalized text,
\* os.path.exists, isfile and listdir follow the links
handle_files_api(path) ==
    LET full_path == normpath(BASE_DIR \o path)
        real == Resolve(full_path)
    IN IF ~StartsWith(PathStr(full_path), PathStr(BASE_DIR)) THEN Outcome("denied", real)
       ELSE IF real \notin Dirs \cup RegularFiles THEN Outcome("not_found", real)
       ELSE IF real \in RegularFiles THEN Outcome("not_a_directory", real)
       ELSE [res |-> "listed", at |-> real,
             items |-> Items(sorted(EntriesAs(real, full_path)), TRUE)]

\* FileServerHandler.handle_file_content_api
handle_file_content_api(path) ==
    LET full_path == normpath(BASE_DIR \o path)
        real == Resolve(full_path)
    IN IF ~StartsWith(PathStr(full_path), PathStr(BASE_DIR)) THEN Outcome("denied", real)
       ELSE IF real \notin RegularFiles THEN Outcome("not_a_file", real)
       ELSE [res |-> "read", at |-> real,
             is_text |-> \A i \in 1..Len(Bytes(real)) : Bytes(real)[i] # NUL]

\* the path arguments: up to MaxDepth names
Components == {DotDot, Proj, Proj2, Ext, Link, TexFile}
RECURSIVE PathArgs(_)
PathArgs(n) ==
    IF n = 0 THEN {<<>>}
    ELSE PathArgs(n - 1) \cup {Append(names, c) : names \in PathArgs(n - 1), c \in Components}

(***************************************************************************)
(* render_latex after its path checks: the compiler run, the clean-up and  *)
(* the result.  A text is known by its length.                             *)
(***************************************************************************)
ErrorLimit == 500               \* error_msg[:500]
DefaultErrorLen == 27           \* "pdflatex compilation failed"
TimeoutErrorLen == 21           \* "Compilation timed out"
NotInstalledErrorLen == 41      \* "pdflatex not found. Please install LaTeX."

\* how subprocess.run ends: the compiler's exit status, TimeoutExpired,
\* FileNotFoundError (no pdflatex), another exception raised once the
\* compiler has run (its output is not UTF-8: UnicodeDecodeError)
CompilerOutcomes == {"exit0", "exit1", "timeout", "not_installed", "other_error"}
MessageLens == {0, 1, ErrorLimit - 1, ErrorLimit, ErrorLimit + 1}
LatexEnvs ==
    [compiler : CompilerOutcomes,
     out_len : MessageLens,         \* length of the compiler's output
     exc_len : MessageLens,         \* length of str(e) of the other exception
     aux_before : BOOLEAN,          \* .aux and .log are there from an earlier run
     pdf : BOOLEAN]                 \* the compiler wrote the PDF

Min(a, b) == IF a < b THEN a ELSE b

LatexResult(success, error_len, aux, log) ==
    [success |-> success, error_len |-> error_len, aux |-> aux, log |-> log]

\* render_latex from `tex_dir = full_path.parent` on: once the compiler has
\* started, the .aux and .log files are there until the loop unlinks them
render_latex_compile(env) ==
    IF env.compiler = "not_installed"
    THEN LatexResult(FALSE, NotInstalledErrorLen, env.aux_before, env.aux_before)
    ELSE IF env.compiler = "timeout" THEN LatexResult(FALSE, TimeoutErrorLen, TRUE, TRUE)
    ELSE IF env.compiler = "other_error" THEN LatexResult(FALSE, env.exc_len, TRUE, TRUE)
    ELSE IF env.compiler = "exit1" \/ ~env.pdf
         THEN LatexResult(FALSE,
                          Min(IF env.out_len > 0 THEN env.out_len ELSE DefaultErrorLen,
                              ErrorLimit),
                          FALSE, FALSE)
    ELSE LatexResult(TRUE, 0, FALSE, FALSE)

(***************************************************************************)
(* call_tool: the tools' bodies with what they raise, and the try/except   *)
(* around them.  A text is a sequence of its parts.                        *)
(***************************************************************************)
ToolNames ==
    {"open_viewer", "list_files", "read_file", "render_latex", "get_selection",
     "clear_selection", "navigate_to_line", "navigate_to_text", "navigate_to_function"}

\* a path argument that is a string
ArgPath(names) == [names |-> names]

\* the arguments values: None, a number, mappings with and without the keys
\* the tools read (a key `wait` or `clear_after_read` that is given is true)
ToolArguments ==
    {Null, Num(5),
     [other |-> Null],
     [path |-> ArgPath(<<TexFile>>)],
     [path |-> ArgPath(<<DotDot, Ext>>)],
     [path |-> Num(5)],
     [path |-> ArgPath(<<TexFile>>), line |-> Num(7), text |-> Str("foo"), name |-> Str("main")],
     [wait |-> Null, timeout |-> Num(0)],
     [wait |-> Null, timeout |-> Str("soon")],
     [clear_after_read |-> Null]}

\* the navigate tools never finding their second parameter missing
ParameterMissing_Never(name, value) == FALSE

\* `line is None`, `not text`, `not name_arg`
ParameterMissing(name, value) ==
    IF name = "navigate_to_line" THEN value = Null ELSE ~Truthy(value)

\* `not path`
PathMissing(path) == path = Null \/ path = ArgPath(<<>>) \/ path = Num(0)

Raise(exc, f, process) == [raised |-> TRUE, text |-> <<exc>>, fs |-> f, process |-> process]
Return(text, f, process) == [raised |-> FALSE, text |-> <<text>>, fs |-> f, process |-> process]

\* what goes wrong around the call: STATE_FILE.rename raising in get_state's
\* JSONDecodeError handler, subprocess.Popen raising
Environments == [rename_fails : BOOLEAN, popen_fails : BOOLEAN]

\* the try block of call_tool
tool_body(name, arguments, f, process, t, env) ==
    LET Arg(k) == IF k \in DOMAIN arguments THEN arguments[k] ELSE Null
        no_get == ~IsMapping(arguments)       \* arguments.get: AttributeError
        gs_raises == Corrupted(f) /\ env.rename_fails
        path == Arg("path")
    IN CASE name = "open_viewer" ->
              IF process = 0 /\ env.popen_fails THEN Raise("OSError", f, process)
              ELSE LET started == start_http_server(f, process)
                   IN IF Corrupted(started.fs) /\ env.rename_fails
                      THEN Raise("OSError", started.fs, started.process)
                      ELSE Return("Web viewer is running at:",
                                  get_state(started.fs).fs, started.process)
         [] name = "list_files" ->
              IF no_get THEN Raise("AttributeError", f, process)
              ELSE LET given == IF "path" \in DOMAIN arguments THEN path ELSE ArgPath(<<>>)
                   IN IF "names" \notin DOMAIN given THEN Raise("AttributeError", f, process)
                      ELSE IF list_files(given.names).res # "listed"
                           THEN Raise(list_files(given.names).res, f, process)
                           ELSE Return("listing", f, process)
         [] name = "read_file" ->
              IF no_get THEN Raise("AttributeError", f, process)
              ELSE IF PathMissing(path) THEN Raise("ValueError", f, process)
              ELSE IF "names" \notin DOMAIN path THEN Raise("AttributeError", f, process)
              ELSE IF read_file(path.names).res # "read"
                   THEN Raise(read_file(path.names).res, f, process)
                   ELSE Return("File:", f, process)
         [] name = "render_latex" ->
              IF no_get THEN Raise("AttributeError", f, process)
              ELSE IF PathMissing(path) THEN Raise("ValueError", f, process)
              ELSE IF "names" \notin DOMAIN path THEN Raise("AttributeError", f, process)
              ELSE IF render_latex(path.names).res # "compiled"
                   THEN Raise(render_latex(path.names).res, f, process)
                   ELSE Return("LaTeX", f, process)
         [] name = "get_selection" ->
              IF no_get THEN Raise("AttributeError", f, process)
              ELSE IF "wait" \in DOMAIN arguments
                   THEN IF "num" \notin DOMAIN Arg("timeout")
                        THEN Raise("TypeError", f, process)
                        ELSE Return("No selection made within", f, process)
                   ELSE IF gs_raises THEN Raise("OSError", f, process)
                   ELSE LET r == get_selection_immediate(
                                     f, "clear_after_read" \in DOMAIN arguments)
                        IN Return(IF r.res = "selection" THEN "Selection from:"
                                  ELSE "No selection found.", r.fs, process)
         [] name = "clear_selection" ->
              IF gs_raises THEN Raise("OSError", f, process)
              ELSE Return("Selection cleared.", clear_selection(f).fs, process)
         [] name \in {"navigate_to_line", "navigate_to_text", "navigate_to_function"} ->
              LET key == IF name = "navigate_to_line" THEN "line"
                         ELSE IF name = "navigate_to_text" THEN "text" ELSE "name"
                  command == IF name = "navigate_to_line" THEN "goto_line"
                             ELSE IF name = "navigate_to_text" THEN "search_text"
                             ELSE "find_function"
              IN IF no_get THEN Raise("AttributeError", f, process)
                 ELSE IF PathMissing(path) \/ ParameterMissing(name, Arg(key))
                      THEN Raise("ValueError", f, process)
                 ELSE IF gs_raises THEN Raise("OSError", f, process)
                 ELSE Return("Navigation command sent:",
                             navigate(f, command, path, Arg(key), t).fs, process)
         [] OTHER -> Raise("ValueError", f, process)

\* an except clause that catches whatever is raised
Caught_All(exc) == TRUE

\* `except Exception`: asyncio.CancelledError derives from BaseException and
\* passes through
Caught(exc) == exc # "CancelledError"

\* call_tool without its except clause
call_tool_NoBoundary(name, arguments, f, process, t, env) ==
    tool_body(name, arguments, f, process, t, env)

\* call_tool: except Exception turns what the body raised into one text
call_tool(name, arguments, f, process, t, env) ==
    LET body == tool_body(name, arguments, f, process, t, env)
    IN IF body.raised
       THEN [body EXCEPT !.raised = FALSE, !.text = <<"Error:">> \o body.text]
       ELSE body

(***************************************************************************)
(* State                                                                   *)
(***************************************************************************)
VARIABLES
    fs,                     \* the three files: path -> [exists, data]
    now,                    \* time.time(), in ticks
    HTTP_SERVER_PROCESS,    \* 0 for None, 1 for the Popen object of a child that
                            \* runs, 2 for the Popen object of a child that exited
    wait,                   \* the wait-mode get_selection call in progress
    last,                   \* the last call that returned, and what it returned
    proc,                   \* ConcSpec: each process's position and locals
    fd,                     \* ConcSpec: the file each process's open handle is at
    saved,                  \* ConcSpec: the documents passed to save_state so far
    done                    \* ConcSpec: the tool calls each process completed

vars == <<fs, now, HTTP_SERVER_PROCESS, wait, last, proc, fd, saved, done>>
concVars == <<proc, fd, saved, done>>
seqVars == <<now, HTTP_SERVER_PROCESS, wait, last>>

NoWait == [active |-> FALSE, start_time |-> 0, timeout |-> 0,
           clear_after_read |-> FALSE, given |-> "not_given", wake |-> 0]
Event(op, clear, res, sel, start_time, timeout) ==
    [op |-> op, clear |-> clear, res |-> res, sel |-> sel,
     start_time |-> start_time, timeout |-> timeout, doc |-> EmptyDoc,
     given |-> "not_given"]
NoEvent == Event("none", FALSE, "none", Absent, 0, 0)

\* what the model's writers put into the document
Selection(path, t) ==
    [file_path |-> path, start_line |-> 10, end_line |-> 12,
     selected_text |-> "x=1", timestamp |-> t]
PartialSelections ==
    {[file_path |-> "test.py"],
     [file_path |-> "a.py", start_line |-> 10, selected_text |-> "x=1", timestamp |-> 0]}
FilePaths == {"a.py", "b.py"}
Timeouts == {-1, 0, 1, 2}

\* the documents another process saves: a selection stamped with the current
\* time, a selection that lacks fields, null, none
SavedSelections(t) ==
    {Selection(path, t) : path \in FilePaths} \cup PartialSelections \cup {Null, Absent}
SavedDocs(t) ==
    {[EmptyDoc EXCEPT !["selection"] = sel, !["theme"] = theme, !["navigation"] = nav] :
        sel \in SavedSelections(t), theme \in {Absent, Str("dark")},
        nav \in {Absent, NavigationCommand("goto_line", "a.py", Num(7), 0)}}

IsFull(sel) == IsMapping(sel) /\ required_fields \subseteq DOMAIN sel

\* ConcSpec's variables at rest
Procs == {"p1", "p2"}
IdleProc == [pc |-> "idle", op |-> "none", ret |-> "none", state |-> EmptyDoc,
             buf |-> <<>>, off |-> 0]
ConcIdle ==
    /\ proc = [p \in Procs |-> IdleProc]
    /\ fd = [p \in Procs |-> "none"]
    /\ saved = {}
    /\ done = [p \in Procs |-> <<>>]

Init ==
    /\ fs = [p \in Paths |-> NoFile]
    /\ now = 0
    /\ HTTP_SERVER_PROCESS = 0
    /\ wait = NoWait
    /\ last = NoEvent
    /\ ConcIdle

(***************************************************************************)
(* Spec: the handlers                                                      *)
(***************************************************************************)
Tick ==
    /\ now < MaxTime
    /\ now' = now + 1
    /\ UNCHANGED <<fs, HTTP_SERVER_PROCESS, wait, last, concVars>>

\* open_viewer
OpenViewer ==
    LET started == start_http_server(fs, HTTP_SERVER_PROCESS)
        got == get_state(started.fs)
    IN /\ HTTP_SERVER_PROCESS' = started.process
       /\ fs' = got.fs
       /\ last' = Event("open_viewer", FALSE, "viewer", Absent, 0, 0)
       /\ UNCHANGED <<now, wait, concVars>>

\* a direct call of get_state, as get_prompt makes; the event keeps the
\* selection that was stored before the call and the document returned
GetState ==
    LET got == get_state(fs)
    IN /\ fs' = got.fs
       /\ last' = [Event("get_state", FALSE, "ok", StoredSelection(fs), 0, 0)
                       EXCEPT !.doc = got.ret]
       /\ UNCHANGED <<now, HTTP_SERVER_PROCESS, wait, concVars>>

\* get_selection with wait false
GetSelectionImmediate ==
    \E given \in ClearArgs :
        LET clear_after_read == ClearAfterRead(given, FALSE)
            r == get_selection_immediate(fs, clear_after_read)
        IN /\ fs' = r.fs
           /\ last' = [Event("get_selection", clear_after_read, r.res, r.sel, 0, 0)
                           EXCEPT !.given = given]
           /\ UNCHANGED <<now, HTTP_SERVER_PROCESS, wait, concVars>>

\* get_selection with wait true: up to the loop's first test
GetSelectionWait ==
    \E timeout \in Timeouts, given \in ClearArgs :
        /\ ~wait.active
        /\ now + timeout <= MaxTime
        /\ wait' = [active |-> TRUE, start_time |-> now, timeout |-> timeout,
                    clear_after_read |-> ClearAfterRead(given, TRUE),
                    given |-> given, wake |-> now]
        /\ UNCHANGED <<fs, now, HTTP_SERVER_PROCESS, last, concVars>>

\* the loop's test and one pass of its body, or the return after the loop
WaitPoll ==
    /\ wait.active
    /\ now >= wait.wake
    /\ IF WaitOpen(now, wait.start_time, wait.timeout)
       THEN LET r == get_selection_poll(fs, wait.start_time, wait.clear_after_read)
            IN /\ fs' = r.fs
               /\ IF r.res = "selection"
                  THEN /\ wait' = NoWait
                       /\ last' = [Event("get_selection_wait", wait.clear_after_read,
                                         "selection", r.sel, wait.start_time, wait.timeout)
                                       EXCEPT !.given = wait.given]
                  ELSE /\ wait' = [wait EXCEPT !.wake = now + PollTicks]
                       /\ last' = last
       ELSE /\ fs' = fs
            /\ wait' = NoWait
            /\ last' = [Event("get_selection_wait", wait.clear_after_read,
                              "timeout", Absent, wait.start_time, wait.timeout)
                            EXCEPT !.given = wait.given]
    /\ UNCHANGED <<now, HTTP_SERVER_PROCESS, concVars>>

\* clear_selection
ClearSelection ==
    LET r == clear_selection(fs)
    IN /\ fs' = r.fs
       /\ last' = Event("clear_selection", FALSE, r.res, Absent, 0, 0)
       /\ UNCHANGED <<now, HTTP_SERVER_PROCESS, wait, concVars>>

\* navigate_to_line, navigate_to_text, navigate_to_function
Targets ==
    {<<"goto_line", Num(7)>>, <<"search_text", Str("foo")>>,
     <<"find_function", Str("main")>>}
Navigate ==
    \E path \in FilePaths, ct \in Targets :
        LET r == navigate(fs, ct[1], path, ct[2], now)
        IN /\ fs' = r.fs
           /\ last' = Event(ct[1], FALSE, r.res, Absent, 0, 0)
           /\ UNCHANGED <<now, HTTP_SERVER_PROCESS, wait, concVars>>

\* the HTTP server's handle_confirm_selection: prints the selection, answers ok
ConfirmSelection ==
    \E path \in FilePaths :
        /\ fs' = fs
        /\ last' = Event("confirm_selection", FALSE, "ok", Selection(path, now), 0, 0)
        /\ UNCHANGED <<now, HTTP_SERVER_PROCESS, wait, concVars>>

\* another process calls save_state with a document of its own
ExternalSaveOf(docs) ==
    \E doc \in docs :
        /\ fs' = save_state(fs, doc)
        /\ last' = Event("save_state", FALSE, "ok", Absent, 0, 0)
        /\ UNCHANGED <<now, HTTP_SERVER_PROCESS, wait, concVars>>

ExternalSave == ExternalSaveOf(SavedDocs(now))

\* another process saves a document that holds a full selection and no more
PublishSelection ==
    ExternalSaveOf({[EmptyDoc EXCEPT !["selection"] = Selection("a.py", now)]})

\* another process writes text that is no JSON to the state file
ExternalWrite ==
    /\ fs' = [fs EXCEPT ![STATE_FILE] = File(<<LBrace, Garbage>>)]
    /\ last' = Event("write", FALSE, "ok", Absent, 0, 0)
    /\ UNCHANGED <<now, HTTP_SERVER_PROCESS, wait, concVars>>

\* the calls that return without suspending, and the other writers
Next ==
    \/ Tick
    \/ OpenViewer
    \/ GetState
    \/ GetSelectionImmediate
    \/ ClearSelection
    \/ Navigate
    \/ ConfirmSelection
    \/ ExternalSave
    \/ ExternalWrite

Spec == Init /\ [][Next]_vars

\* a wait-mode get_selection, what is saved and cleared while it sleeps
WaitNext ==
    \/ Tick
    \/ GetSelectionWait
    \/ WaitPoll
    \/ ExternalSave
    \/ ExternalWrite
    \/ ClearSelection

WaitSpec == Init /\ [][WaitNext]_vars

\* a wait-mode get_selection alone with a publisher; the event loop runs a
\* coroutine whose sleep has ended, and time passes
WaitLiveNext ==
    \/ Tick
    \/ GetSelectionWait
    \/ WaitPoll
    \/ PublishSelection

WaitLive == Init /\ [][WaitLiveNext]_vars /\ WF_vars(WaitPoll) /\ WF_vars(Tick)

(***************************************************************************)
(* StoreSpec: one process that calls save_state and get_state, as the      *)
(* tests of test_state_sync.py do, with save_state calls that fail.        *)
(***************************************************************************)
StoreDocs(t) ==
    {[EmptyDoc EXCEPT !["selection"] = sel, !["theme"] = theme] :
        sel \in {Selection("a.py", t), [file_path |-> "test.py"], Absent},
        theme \in {Absent, Str("dark")}}

\* another process saves one of these documents
StoreSave == ExternalSaveOf(StoreDocs(now))

\* save_state(state) returns
SaveState ==
    \E state \in StoreDocs(now) :
        /\ fs' = save_state(fs, state)
        /\ last' = [Event("save_state", FALSE, "ok", Absent, 0, 0) EXCEPT !.doc = state]
        /\ UNCHANGED <<now, HTTP_SERVER_PROCESS, wait, concVars>>

\* save_state(state) with one of its steps raising
SaveStateFails ==
    \E state \in StoreDocs(now), step \in SaveSteps :
        \E written \in Prefixes(JsonDump(state), Len(JsonDump(state)) - 1) :
            LET r == save_state_fails(fs, state, step, written)
            IN /\ step # "dump" => written = <<>>
               /\ fs' = r.fs
               /\ last' = [Event("save_state", FALSE,
                                 IF r.raised THEN "raised" ELSE step, Absent, 0, 0)
                               EXCEPT !.doc = state]
               /\ UNCHANGED <<now, HTTP_SERVER_PROCESS, wait, concVars>>

StoreNext ==
    \/ Tick
    \/ SaveState
    \/ SaveStateFails
    \/ GetState

StoreSpec == Init /\ [][StoreNext]_vars

(***************************************************************************)
(* ReadSpec: get_selection in both modes, with a process that saves.       *)
(***************************************************************************)
ReadNext ==
    \/ Tick
    \/ GetSelectionImmediate
    \/ GetSelectionWait
    \/ WaitPoll
    \/ StoreSave

ReadSpec == Init /\ [][ReadNext]_vars

(***************************************************************************)
(* ViewerSpec: open_viewer and the HTTP server child, which may exit (it   *)
(* exits at once when it cannot bind its port).                            *)
(***************************************************************************)
ChildExits ==
    /\ HTTP_SERVER_PROCESS = 1
    /\ HTTP_SERVER_PROCESS' = 2
    /\ UNCHANGED <<fs, now, wait, last, concVars>>

ViewerNext ==
    \/ Tick
    \/ OpenViewer
    \/ ChildExits
    \/ StoreSave
    \/ ExternalWrite

ViewerSpec == Init /\ [][ViewerNext]_vars

(***************************************************************************)
(* LifeSpec: ViewerSpec and the end of main, whose finally clause runs     *)
(* stop_http_server however app.run ended.                                 *)
(***************************************************************************)
ExitReasons == {"returned", "raised", "cancelled"}

MainEnds ==
    \E reason \in ExitReasons, ignores_sigterm \in BOOLEAN :
        LET r == stop_http_server(HTTP_SERVER_PROCESS, ignores_sigterm)
        IN /\ HTTP_SERVER_PROCESS' = r.process
           /\ last' = [op |-> "main_ends", reason |-> reason, held |-> HTTP_SERVER_PROCESS,
                       child |-> r.child, killed |-> r.killed]
           /\ UNCHANGED <<fs, now, wait, concVars>>

LifeNext ==
    \/ Tick
    \/ OpenViewer
    \/ ChildExits
    \/ MainEnds
    \/ StoreSave
    \/ ExternalWrite

LifeSpec == Init /\ [][LifeNext]_vars

(***************************************************************************)
(* PollSpec: save_state calls, and the get_state calls and wait-mode polls *)
(* that follow them.                                                       *)
(***************************************************************************)
PollNext ==
    \/ Tick
    \/ SaveState
    \/ GetState
    \/ GetSelectionWait
    \/ WaitPoll

PollSpec == Init /\ [][PollNext]_vars

(***************************************************************************)
(* RecoverSpec: get_state on what another process may leave in the state   *)
(* file, and the writes that follow.                                       *)
(***************************************************************************)
MalformedContents == {<<BadBytes>>, <<LBrace, Garbage>>, <<Garbage>>, <<JsonArray>>}

\* another process writes content that is no document to the state file
ExternalWriteMalformed ==
    \E data \in MalformedContents :
        /\ fs' = [fs EXCEPT ![STATE_FILE] = File(data)]
        /\ last' = Event("write", FALSE, "ok", Absent, 0, 0)
        /\ UNCHANGED <<now, HTTP_SERVER_PROCESS, wait, concVars>>

\* selection values that are no mapping
ScalarSelections == {Null, Num(5), Str("abc")}
InvalidDocs ==
    {[ServerDoc(1) EXCEPT !["selection"] = sel, !["theme"] = theme, !["navigation"] = nav] :
        sel \in ScalarSelections, theme \in {Absent, Str("dark")},
        nav \in {Absent, NavigationCommand("goto_line", "a.py", Num(7), 0)}}

\* documents whose selection has the five fields and line numbers out of
\* range: a start line of 0, an end line before the start line
OutOfRangeDocs ==
    {[EmptyDoc EXCEPT !["selection"] = sel] :
        sel \in {[Selection("a.py", 0) EXCEPT !.start_line = 0],
                 [Selection("a.py", 0) EXCEPT !.end_line = 9]}}

\* another process saves a valid object whose selection is no mapping, or
\* one whose line numbers are out of range
ExternalSaveInvalid == ExternalSaveOf(InvalidDocs \cup OutOfRangeDocs)

RecoverNext ==
    \/ Tick
    \/ GetState
    \/ GetSelectionImmediate
    \/ ExternalWriteMalformed
    \/ ExternalSaveInvalid
    \/ StoreSave

RecoverSpec == Init /\ [][RecoverNext]_vars

(***************************************************************************)
(* NavSpec: the navigate tools and the UI's acknowledgement of a command.  *)
(***************************************************************************)
\* the HTTP server's do_POST for a path other than /api/confirm-selection,
\* here the UI reporting the command stamped `timestamp` as executed: 404
AcknowledgeNavigation ==
    \E timestamp \in 0..MaxTime :
        /\ fs' = fs
        /\ last' = Event("acknowledge_navigation", FALSE, "404", Num(timestamp), 0, 0)
        /\ UNCHANGED <<now, HTTP_SERVER_PROCESS, wait, concVars>>

NavNext ==
    \/ Tick
    \/ Navigate
    \/ AcknowledgeNavigation

NavSpec == Init /\ [][NavNext]_vars

(***************************************************************************)
(* PathSpec: the tools and endpoints that take a path.                     *)
(***************************************************************************)
PathResult(op, path, r) == [op |-> op, path |-> path, res |-> r.res, at |-> r.at]

ListFiles ==
    \E path \in PathArgs(MaxDepth) :
        /\ last' = PathResult("list_files", path, list_files(path))
        /\ UNCHANGED <<fs, now, HTTP_SERVER_PROCESS, wait, concVars>>
ReadFile ==
    \E path \in PathArgs(MaxDepth) :
        /\ last' = PathResult("read_file", path, read_file(path))
        /\ UNCHANGED <<fs, now, HTTP_SERVER_PROCESS, wait, concVars>>
RenderLatex ==
    \E path \in PathArgs(MaxDepth) :
        /\ last' = PathResult("render_latex", path, render_latex(path))
        /\ UNCHANGED <<fs, now, HTTP_SERVER_PROCESS, wait, concVars>>
HandleFilesApi ==
    \E path \in PathArgs(MaxDepth) :
        /\ last' = PathResult("/api/files", path, handle_files_api(path))
        /\ UNCHANGED <<fs, now, HTTP_SERVER_PROCESS, wait, concVars>>
HandleFileContentApi ==
    \E path \in PathArgs(MaxDepth) :
        /\ last' = PathResult("/api/file-content", path, handle_file_content_api(path))
        /\ UNCHANGED <<fs, now, HTTP_SERVER_PROCESS, wait, concVars>>

PathOps == {"list_files", "read_file", "render_latex", "/api/files", "/api/file-content"}

PathNext ==
    \/ ListFiles
    \/ ReadFile
    \/ RenderLatex
    \/ HandleFilesApi
    \/ HandleFileContentApi

PathSpec == Init /\ [][PathNext]_vars

(***************************************************************************)
(* GatewaySpec: the listings and the file reads of both sides, with what   *)
(* they return.                                                            *)
(***************************************************************************)
GatewayComponents == {DotDot, Proj2, Link, TexFile, Bin}
RECURSIVE GatewayArgs(_)
GatewayArgs(n) ==
    IF n = 0 THEN {<<>>}
    ELSE GatewayArgs(n - 1)
             \cup {Append(names, c) : names \in GatewayArgs(n - 1), c \in GatewayComponents}

GatewayResult(op, path, r) ==
    [op |-> op, path |-> path, res |-> r.res, at |-> r.at,
     items |-> IF "items" \in DOMAIN r THEN r.items ELSE <<>>,
     is_text |-> IF "is_text" \in DOMAIN r THEN r.is_text ELSE FALSE]

GatewayListFiles ==
    \E path \in GatewayArgs(MaxDepth) :
        /\ last' = GatewayResult("list_files", path, list_files(path))
        /\ UNCHANGED <<fs, now, HTTP_SERVER_PROCESS, wait, concVars>>
GatewayReadFile ==
    \E path \in GatewayArgs(MaxDepth) :
        /\ last' = GatewayResult("read_file", path, read_file(path))
        /\ UNCHANGED <<fs, now, HTTP_SERVER_PROCESS, wait, concVars>>
GatewayFilesApi ==
    \E path \in GatewayArgs(MaxDepth) :
        /\ last' = GatewayResult("/api/files", path, handle_files_api(path))
        /\ UNCHANGED <<fs, now, HTTP_SERVER_PROCESS, wait, concVars>>
GatewayFileContentApi ==
    \E path \in GatewayArgs(MaxDepth) :
        /\ last' = GatewayResult("/api/file-content", path, handle_file_content_api(path))
        /\ UNCHANGED <<fs, now, HTTP_SERVER_PROCESS, wait, concVars>>

GatewayNext ==
    \/ GatewayListFiles
    \/ GatewayReadFile
    \/ GatewayFilesApi
    \/ GatewayFileContentApi

GatewaySpec == Init /\ [][GatewayNext]_vars

(***************************************************************************)
(* LatexSpec: render_latex on a .tex file inside the root.                 *)
(***************************************************************************)
RenderLatexCompile ==
    \E env \in LatexEnvs :
        /\ last' = [op |-> "render_latex_compile", env |-> env,
                    result |-> render_latex_compile(env)]
        /\ UNCHANGED <<fs, now, HTTP_SERVER_PROCESS, wait, concVars>>

LatexNext == RenderLatexCompile

LatexSpec == Init /\ [][LatexNext]_vars

(***************************************************************************)
(* ToolSpec: call_tool with every tool name and arguments value, on the    *)
(* documents another process leaves.                                       *)
(***************************************************************************)
ToolCall ==
    \E name \in ToolNames \cup {"no_such_tool"}, arguments \in ToolArguments,
       env \in Environments :
        LET r == call_tool(name, arguments, fs, HTTP_SERVER_PROCESS, now, env)
        IN /\ fs' = r.fs
           /\ HTTP_SERVER_PROCESS' = r.process
           /\ last' = [op |-> "call_tool", name |-> name, raised |-> r.raised,
                       text |-> r.text,
                       failed |-> tool_body(name, arguments, fs, HTTP_SERVER_PROCESS,
                                            now, env).raised]
           /\ UNCHANGED <<now, wait, concVars>>

ToolNext ==
    \/ ToolCall
    \/ StoreSave
    \/ ExternalWrite

ToolSpec == Init /\ [][ToolNext]_vars

(***************************************************************************)
(* CancelSpec: a wait-mode get_selection whose task is cancelled while it  *)
(* is suspended in asyncio.sleep.                                          *)
(***************************************************************************)
\* the call has reached its await at least once
Suspended == wait.active /\ wait.wake > wait.start_time

\* CancelledError is raised at `await asyncio.sleep(0.5)`
CancelWait ==
    /\ Suspended
    /\ wait' = NoWait
    /\ last' = [Event("get_selection_wait", wait.clear_after_read,
                      IF Caught("CancelledError") THEN "error_text" ELSE "cancelled",
                      Absent, wait.start_time, wait.timeout)
                    EXCEPT !.given = wait.given]
    /\ UNCHANGED <<fs, now, HTTP_SERVER_PROCESS, concVars>>

CancelNext ==
    \/ Tick
    \/ GetSelectionWait
    \/ WaitPoll
    \/ CancelWait
    \/ StoreSave

CancelSpec == Init /\ [][CancelNext]_vars

(***************************************************************************)
(* NavArgSpec: the navigate tools called through call_tool with arguments  *)
(* that have, lack, or hold an empty or zero value for each parameter.     *)
(***************************************************************************)
NavigateTools == {"navigate_to_line", "navigate_to_text", "navigate_to_function"}
NavigateArguments ==
    {[other |-> Null],
     [path |-> ArgPath(<<TexFile>>)],
     [line |-> Num(7), text |-> Str("foo"), name |-> Str("main")],
     [path |-> ArgPath(<<TexFile>>), line |-> Num(7), text |-> Str("foo"), name |-> Str("main")],
     [path |-> ArgPath(<<TexFile>>), line |-> Num(0), text |-> Str(""), name |-> Str("")]}

NavigateCall ==
    \E name \in NavigateTools, arguments \in NavigateArguments, env \in Environments :
        LET r == call_tool(name, arguments, fs, HTTP_SERVER_PROCESS, now, env)
        IN /\ fs' = r.fs
           /\ last' = [op |-> "call_tool", name |-> name, arguments |-> arguments,
                       raised |-> r.raised, text |-> r.text]
           /\ UNCHANGED <<now, HTTP_SERVER_PROCESS, wait, concVars>>

NavArgNext ==
    \/ Tick
    \/ NavigateCall
    \/ StoreSave
    \/ ExternalWrite

NavArgSpec == Init /\ [][NavArgNext]_vars

(***************************************************************************)
(* ConcSpec: two processes, one system call at a time.                     *)
(*                                                                         *)
(* fd[p] says where the file that p's open handle writes to is now linked: *)
(* a rename by the other process moves it with the file.                   *)
(***************************************************************************)
Tools == {"get_state", "save_state", "clear_selection", "navigate_to_line"}

\* the documents the processes pass to save_state directly, and the one the
\* state file may hold at the start
DirectDocs ==
    {[EmptyDoc EXCEPT !["theme"] = Str("dark")],
     [EmptyDoc EXCEPT !["selection"] = Selection("b.py", 0),
                      !["theme"] = Str("light"),
                      !["navigation"] = NavigationCommand("search_text", "b.py", Str("foo"), 0)]}
InitialDoc ==
    [EmptyDoc EXCEPT !["selection"] = Selection("a.py", 0), !["theme"] = Str("dark")]

\* what the state file may hold at the start: a saved document, or text that
\* is no JSON
InitialContents == {JsonDump(InitialDoc), <<LBrace, Garbage>>}

ConcInit ==
    /\ fs \in {[p \in Paths |-> NoFile]}
             \cup {[[p \in Paths |-> NoFile] EXCEPT ![STATE_FILE] = File(data)] :
                      data \in InitialContents}
    /\ now = 0
    /\ HTTP_SERVER_PROCESS = 0
    /\ wait = NoWait
    /\ last = NoEvent
    /\ ConcIdle

\* f.write at offset off: bytes past the end of the file are filled with NUL
RECURSIVE Pads(_)
Pads(n) == IF n <= 0 THEN <<>> ELSE <<Pad>> \o Pads(n - 1)
WriteAt(data, off, chunk) ==
    IF off >= Len(data) THEN data \o Pads(off - Len(data)) \o chunk
    ELSE SubSeq(data, 1, off) \o chunk \o SubSeq(data, off + Len(chunk) + 1, Len(data))

\* a rename of path `from` onto path `to`: the open handles follow their files
Renamed(from, to) ==
    [q \in Procs |-> IF fd[q] = from THEN to
                     ELSE IF fd[q] = to THEN "orphan"
                     ELSE fd[q]]

\* the document the tool saves, made from the one get_state returned
ToolBody(op, state) ==
    IF op = "clear_selection" THEN Pop(state, "selection")
    ELSE Put(state, "navigation", NavigationCommand("goto_line", "a.py", Num(7), now))

\* the tool call returns
Finish(p, result) ==
    /\ proc' = [proc EXCEPT ![p] = IdleProc]
    /\ done' = [done EXCEPT ![p] = Append(@, [op |-> proc[p].op, res |-> result])]

\* get_state returns `state` to the tool, which goes on to its save_state
GsReturn(p, state) ==
    IF proc[p].op = "get_state" THEN Finish(p, "ok")
    ELSE /\ proc' = [proc EXCEPT ![p] = [@ EXCEPT !.pc = "ss_open", !.ret = "tool",
                                                  !.state = ToolBody(proc[p].op, state)]]
         /\ done' = done

\* a tool is called
CallTool(p) ==
    /\ proc[p].pc = "idle"
    /\ Len(done[p]) < MaxOps
    /\ \E op \in Tools :
        IF op = "save_state"
        THEN \E doc \in DirectDocs :
                proc' = [proc EXCEPT ![p] = [IdleProc EXCEPT !.pc = "ss_open", !.op = op,
                                                             !.ret = "tool", !.state = doc]]
        ELSE proc' = [proc EXCEPT ![p] = [IdleProc EXCEPT !.pc = "gs_exists", !.op = op]]
    /\ UNCHANGED <<fs, fd, saved, done, seqVars>>

\* get_state: if not STATE_FILE.exists(): return {}
GsExists(p) ==
    /\ proc[p].pc = "gs_exists"
    /\ IF fs[STATE_FILE].exists
       THEN /\ proc' = [proc EXCEPT ![p].pc = "gs_read"]
            /\ done' = done
       ELSE GsReturn(p, EmptyDoc)
    /\ UNCHANGED <<fs, fd, saved, seqVars>>

\* get_state: open, json.load and the validation of what was loaded
GsRead(p) ==
    /\ proc[p].pc = "gs_read"
    /\ IF ~fs[STATE_FILE].exists THEN GsReturn(p, EmptyDoc)   \* open fails: except Exception
       ELSE LET loaded == JsonLoad(fs[STATE_FILE].data)
                state == loaded.doc
            IN IF loaded.err = "JSONDecodeError"
               THEN /\ proc' = [proc EXCEPT ![p].pc = "gs_backup"]
                    /\ done' = done
               ELSE IF loaded.err # "none" THEN GsReturn(p, EmptyDoc)
               ELSE IF ~Has(state, "selection") THEN GsReturn(p, state)
               ELSE IF InRaises(state["selection"]) THEN GsReturn(p, EmptyDoc)
               ELSE IF AllRequired(state["selection"]) THEN GsReturn(p, state)
               ELSE /\ proc' = [proc EXCEPT ![p] = [@ EXCEPT !.pc = "ss_open", !.ret = "heal",
                                                             !.state = Pop(state, "selection")]]
                    /\ done' = done
    /\ UNCHANGED <<fs, fd, saved, seqVars>>

\* get_state, except JSONDecodeError: if STATE_FILE.exists():
GsBackup(p) ==
    /\ proc[p].pc = "gs_backup"
    /\ IF fs[STATE_FILE].exists
       THEN /\ proc' = [proc EXCEPT ![p].pc = "gs_rename"]
            /\ done' = done
       ELSE GsReturn(p, EmptyDoc)
    /\ UNCHANGED <<fs, fd, saved, seqVars>>

\* get_state, except JSONDecodeError: STATE_FILE.rename(backup_path); with no
\* file to rename the exception leaves get_state and ends the tool call
GsRename(p) ==
    /\ proc[p].pc = "gs_rename"
    /\ IF fs[STATE_FILE].exists
       THEN /\ fs' = [fs EXCEPT ![backup_path] = fs[STATE_FILE], ![STATE_FILE] = NoFile]
            /\ fd' = Renamed(STATE_FILE, backup_path)
            /\ GsReturn(p, EmptyDoc)
       ELSE /\ fs' = fs
            /\ fd' = fd
            /\ Finish(p, "error")
    /\ UNCHANGED <<saved, seqVars>>

\* save_state: open(temp_file, "w") makes the file or empties the one there
SsOpen(p) ==
    /\ proc[p].pc = "ss_open"
    /\ fs' = [fs EXCEPT ![temp_file] = File(<<>>)]
    /\ fd' = [fd EXCEPT ![p] = temp_file]
    /\ proc' = [proc EXCEPT ![p] = [@ EXCEPT !.pc = "ss_write", !.off = 0,
                                             !.buf = JsonDump(proc[p].state)]]
    /\ saved' = saved \cup {proc[p].state}
    /\ UNCHANGED <<done, seqVars>>

\* save_state: json.dump reaches the file one buffer at a time; the last
\* buffer goes out when the with block closes the file
SsWrite(p) ==
    /\ proc[p].pc = "ss_write"
    /\ LET n == IF Len(proc[p].buf) < ChunkTokens THEN Len(proc[p].buf) ELSE ChunkTokens
           chunk == SubSeq(proc[p].buf, 1, n)
           rest == SubSeq(proc[p].buf, n + 1, Len(proc[p].buf))
       IN /\ fs' = IF fd[p] \in Paths
                   THEN [fs EXCEPT ![fd[p]].data = WriteAt(@, proc[p].off, chunk)]
                   ELSE fs
          /\ IF rest = <<>>
             THEN /\ proc' = [proc EXCEPT ![p] = [@ EXCEPT !.pc = "ss_replace", !.buf = <<>>,
                                                           !.off = 0]]
                  /\ fd' = [fd EXCEPT ![p] = "none"]
             ELSE /\ proc' = [proc EXCEPT ![p] = [@ EXCEPT !.buf = rest, !.off = @ + n]]
                  /\ fd' = fd
    /\ UNCHANGED <<saved, done, seqVars>>

\* save_state: temp_file.replace(STATE_FILE); with no temporary file the
\* exception is logged and save_state returns
SsReplace(p) ==
    /\ proc[p].pc = "ss_replace"
    /\ IF fs[temp_file].exists
       THEN /\ fs' = [fs EXCEPT ![STATE_FILE] = fs[temp_file], ![temp_file] = NoFile]
            /\ fd' = Renamed(temp_file, STATE_FILE)
       ELSE /\ fs' = fs
            /\ fd' = fd
    /\ IF proc[p].ret = "heal"
       THEN GsReturn(p, proc[p].state)
       ELSE Finish(p, "ok")
    /\ UNCHANGED <<saved, seqVars>>

ConcNext ==
    \/ \E p \in Procs : CallTool(p)
    \/ \E p \in Procs : GsExists(p)
    \/ \E p \in Procs : GsRead(p)
    \/ \E p \in Procs : GsBackup(p)
    \/ \E p \in Procs : GsRename(p)
    \/ \E p \in Procs : SsOpen(p)
    \/ \E p \in Procs : SsWrite(p)
    \/ \E p \in Procs : SsReplace(p)

ConcSpec == ConcInit /\ [][ConcNext]_vars

(***************************************************************************)
(* Properties                                                              *)
(***************************************************************************)
\* this step is the return of the call `op`
Returns(op) == last'.op = op /\ now' = now /\ wait' = wait

\* the four fields of a selection that the UI sends
SameSelection(a, b) ==
    /\ IsFull(a) /\ IsFull(b)
    /\ a.file_path = b.file_path /\ a.start_line = b.start_line
    /\ a.end_line = b.end_line /\ a.selected_text = b.selected_text

\* C3: a wait-mode get_selection returns only a selection whose timestamp is
\* later than the time the wait started
C3_FreshOnly ==
    (last.op = "get_selection_wait" /\ last.res = "selection")
        => (IsFull(last.sel) /\ last.sel.timestamp > last.start_time)
C3_Witness ==
    /\ last.op = "get_selection_wait" /\ last.res = "selection"
    /\ last.sel.timestamp = last.start_time + 1

\* C4: a wait-mode get_selection does not return the timeout result while the
\* document holds a full selection stamped after the wait's start and saved
\* before the wait's timeout elapsed (a saved selection is stamped with the
\* time of its save)
C4_ReturnedBeforeTimeout ==
    (last.op = "get_selection_wait" /\ last.res = "timeout")
        => ~(/\ IsFull(StoredSelection(fs))
             /\ StoredSelection(fs).timestamp > last.start_time
             /\ StoredSelection(fs).timestamp < last.start_time + last.timeout)

\* C5: every wait-mode get_selection returns, with a selection or with the
\* timeout text, whatever its timeout
C5_WaitReturns ==
    wait.active ~> (~wait.active /\ last.op = "get_selection_wait"
                    /\ last.res \in {"selection", "timeout"})
C5_Witness ==
    last.op = "get_selection_wait" /\ last.res = "timeout" /\ last.timeout <= 0

\* C6: an immediate get_selection with clear_after_read returns the stored
\* full selection and removes the key, and an immediate get_selection that
\* follows it with no save in between returns 'no selection'
C6_DeliveredOnce ==
    [][Returns("get_selection") =>
        /\ (IsFull(StoredSelection(fs)) /\ last'.clear)
               => /\ last'.res = "selection"
                  /\ last'.sel = StoredSelection(fs)
                  /\ Parses(fs') /\ ~Has(StoredDoc(fs'), "selection")
        /\ (last.op = "get_selection" /\ last.clear /\ last.res = "selection")
               => last'.res = "none"]_vars
C6_Witness ==
    /\ last.op = "get_selection" /\ last.clear /\ last.res = "selection"
    /\ IsFull(last.sel) /\ Parses(fs) /\ ~Has(StoredDoc(fs), "selection")

\* C7: an immediate get_selection without clear that follows the UI's
\* confirmation of a selection S returns a selection equal to S
C7_RoundTrip ==
    [][(Returns("get_selection") /\ last.op = "confirm_selection" /\ ~last'.clear)
        => (last'.res = "selection" /\ SameSelection(last'.sel, last.sel))]_vars

\* C8: clear_selection leaves the document without the selection key and with
\* every other key as it was, and a second clear_selection changes nothing
C8_ClearIdempotent ==
    [][Returns("clear_selection") =>
        /\ last'.res = "cleared"
        /\ Parses(fs') /\ ~Has(StoredDoc(fs'), "selection")
        /\ \A k \in Keys \ {"selection"} : StoredDoc(fs')[k] = StoredDoc(fs)[k]
        /\ (last.op = "clear_selection" => fs' = fs)]_vars

\* C9: get_state on a state file that is no JSON returns the empty document
\* and leaves the file's bytes at the backup path; a get_state after it
\* returns the empty document and changes no file
C9_CorruptionRecovery ==
    [][(Returns("get_state") /\ Corrupted(fs)) =>
        /\ last'.doc = EmptyDoc
        /\ fs'[backup_path] = fs[STATE_FILE]
        /\ get_state(fs').ret = EmptyDoc
        /\ get_state(fs').fs = fs']_vars
C9_Witness ==
    /\ last.op = "get_state" /\ last.doc = EmptyDoc
    /\ ~fs[STATE_FILE].exists
    /\ fs[backup_path] = File(<<LBrace, Garbage>>)

\* C10: get_state on a document whose selection is a mapping that lacks a
\* required field returns the document without the selection and with the
\* other keys as stored, and the state file then holds what was returned; a
\* selection that get_state returns has the five fields
C10_PartialSelectionDropped ==
    [][Returns("get_state") =>
        /\ (/\ Parses(fs) /\ Has(StoredDoc(fs), "selection")
            /\ IsMapping(StoredSelection(fs)) /\ ~IsFull(StoredSelection(fs)))
               => /\ last'.doc = Pop(StoredDoc(fs), "selection")
                  /\ Parses(fs') /\ StoredDoc(fs') = last'.doc
        /\ Has(last'.doc, "selection") => IsFull(last'.doc["selection"])]_vars
C10_Witness ==
    /\ last.op = "get_state" /\ ~Has(last.doc, "selection")
    /\ IsMapping(last.sel) /\ "timestamp" \in DOMAIN last.sel /\ ~IsFull(last.sel)
    /\ Has(last.doc, "theme") /\ Has(last.doc, "navigation")
    /\ StoredDoc(fs) = last.doc

\* C1: whatever the two processes' save_state and get_state calls do, the
\* state file holds the complete serialization of one document that was
\* passed to save_state (or that it held at the start)
C1_AtomicWrite ==
    fs[STATE_FILE].exists
        => \/ fs[STATE_FILE].data \in InitialContents
           \/ \E doc \in saved : fs[STATE_FILE].data = JsonDump(doc)

\* C2: when one process has run navigate_to_line and the other clear_selection,
\* in any interleaving, the document holds the navigation command and no
\* selection
BothDone(a, b) ==
    /\ \A p \in Procs : proc[p].pc = "idle"
    /\ \E p, q \in Procs :
        /\ p # q
        /\ Len(done[p]) = 1 /\ done[p][1].op = a
        /\ Len(done[q]) = 1 /\ done[q][1].op = b
C2_NoLostUpdate ==
    BothDone("navigate_to_line", "clear_selection")
        => /\ Parses(fs)
           /\ StoredDoc(fs)["navigation"] = NavigationCommand("goto_line", "a.py", Num(7), 0)
           /\ ~Has(StoredDoc(fs), "selection")

\* C11: no get_state call of either process ends by raising: a call that has
\* completed returned a mapping, also when the other process renamed the
\* state file between this call's existence check and its rename
C11_GetStateNeverRaises ==
    \A p \in Procs : \A i \in 1..Len(done[p]) : done[p][i].res # "error"

\* C12: a save_state call in which opening the temporary file, json.dump or
\* the replace raises returns to its caller, and the state file is the file
\* it was before the call
C12_FailedSaveKeepsDocument ==
    [][(Returns("save_state") /\ last'.res # "ok") =>
        /\ last'.res \in SaveSteps
        /\ fs'[STATE_FILE] = fs[STATE_FILE]
        /\ StoredDoc(fs') = StoredDoc(fs)]_vars
C12_Witness ==
    /\ last.op = "save_state" /\ last.res = "dump"
    /\ fs[temp_file].exists /\ Len(fs[temp_file].data) = 1
    /\ Parses(fs) /\ IsFull(StoredSelection(fs)) /\ StoredDoc(fs) # last.doc

\* a document whose selection, if it has one, has the five fields
NoInvalidSelection(doc) == Has(doc, "selection") => IsFull(doc["selection"])

\* C13: with one process, get_state after a save_state of a document without
\* an invalid selection returns that document, whatever was saved before,
\* and writes nothing; with no state file get_state returns the empty document
C13_LastWriteWins ==
    [][Returns("get_state") =>
        /\ (last.op = "save_state" /\ last.res = "ok" /\ NoInvalidSelection(last.doc))
               => (last'.doc = last.doc /\ fs' = fs)
        /\ ~fs[STATE_FILE].exists => (last'.doc = EmptyDoc /\ fs' = fs)]_vars
C13_Witness ==
    /\ last.op = "get_state" /\ now = 2
    /\ last.doc = [EmptyDoc EXCEPT !["selection"] = Selection("a.py", 2)]
    /\ StoredDoc(fs) = last.doc

\* C14: after navigate_to_line, navigate_to_text or navigate_to_function the
\* document's navigation entry is the new command, not executed, whatever
\* entry was there; a full selection and every other key are as they were
NavigationOps == {ct[1] : ct \in Targets}
C14_NavigationOverwrites ==
    [][(\E op \in NavigationOps : Returns(op)) =>
        /\ Parses(fs')
        /\ \E path \in FilePaths, ct \in Targets :
              /\ last'.op = ct[1]
              /\ StoredDoc(fs')["navigation"] = NavigationCommand(ct[1], path, ct[2], now)
        /\ Parses(fs) =>
              /\ \A k \in Keys \ {"navigation", "selection"} :
                    StoredDoc(fs')[k] = StoredDoc(fs)[k]
              /\ IsFull(StoredSelection(fs)) => StoredSelection(fs') = StoredSelection(fs)]_vars

\* C15: acknowledging the navigation command stamped T sets executed to TRUE
\* when the document's navigation entry is stamped T, and leaves the document
\* as it is when the entry is stamped otherwise
C15_AcknowledgeMarksExecuted ==
    [][(Returns("acknowledge_navigation") /\ Has(StoredDoc(fs), "navigation")) =>
        IF StoredDoc(fs)["navigation"].timestamp = last'.sel.num
        THEN /\ Parses(fs')
             /\ StoredDoc(fs')["navigation"] =
                    [StoredDoc(fs)["navigation"] EXCEPT !.executed = TRUE]
        ELSE fs' = fs]_vars

\* C16: the write that open_viewer makes when it starts the HTTP server keeps
\* the selection, the navigation command and the unknown keys of a document
\* whose selection is absent or full
C16_OpenViewerKeepsKeys ==
    [][(Returns("open_viewer") /\ Parses(fs) /\ NoInvalidSelection(StoredDoc(fs))) =>
        /\ Parses(fs')
        /\ \A k \in {"selection", "navigation", "theme"} :
              StoredDoc(fs')[k] = StoredDoc(fs)[k]]_vars

\* C17: list_files, read_file, render_latex and the two HTTP endpoints either
\* deny access or work on the root or a descendant of it: a path that leads
\* outside the root is denied
C17_SandboxContainment ==
    last.op \in PathOps => (last.res = "denied" \/ StartsWith(last.at, BASE_DIR))

\* C18: whatever the tool name and the arguments, call_tool returns one text
\* and lets no exception out; when a step of the tool raised, the text
\* begins with 'Error:'
C18_ErrorBoundary ==
    last.op = "call_tool" =>
        /\ ~last.raised
        /\ Len(last.text) >= 1
        /\ last.failed <=> Head(last.text) = "Error:"
C18_Witness ==
    /\ last.op = "call_tool" /\ last.name = "clear_selection"
    /\ last.failed /\ ~last.raised /\ last.text = <<"Error:", "OSError">>
    /\ Corrupted(fs)

\* C19: with clear_after_read not given, a wait-mode get_selection that
\* returns a selection leaves the document without it; an immediate one
\* that returns a selection writes nothing, as does one that finds a
\* document with no invalid selection, and the next immediate read returns
\* the same selection
C19_DefaultClear ==
    [][/\ (wait.active /\ ~wait'.active /\ last'.given = "not_given"
              /\ last'.res = "selection")
           => (Parses(fs') /\ ~Has(StoredDoc(fs'), "selection"))
       /\ (Returns("get_selection") /\ last'.given = "not_given") =>
           /\ last'.res = "selection" => (fs' = fs /\ last'.sel = StoredSelection(fs))
           /\ (Parses(fs) /\ NoInvalidSelection(StoredDoc(fs))) => fs' = fs
           /\ (last.op = "get_selection" /\ last.given = "not_given"
                  /\ last.res = "selection")
               => (last'.res = "selection" /\ last'.sel = last.sel)]_vars
C19_Witness ==
    /\ last.op = "get_selection" /\ last.given = "not_given" /\ ~last.clear
    /\ last.res = "selection" /\ IsFull(last.sel)
    /\ StoredSelection(fs) = last.sel

\* C20: when open_viewer returns its success text the HTTP server child is
\* running, also when a child started earlier has exited
C20_ViewerRunning ==
    [][(Returns("open_viewer") /\ last' # last /\ last'.res = "viewer")
          => HTTP_SERVER_PROCESS' = 1]_vars

\* C21: after render_latex returns from a run in which the compiler started,
\* the .aux and .log files do not exist, whatever the outcome
C21_AuxiliaryFilesRemoved ==
    (last.op = "render_latex_compile" /\ last.env.compiler # "not_installed")
        => (~last.result.aux /\ ~last.result.log)

\* C28: every error text that render_latex returns has at most 500
\* characters, in every failure branch
C28_ErrorTextBounded ==
    (last.op = "render_latex_compile" /\ ~last.result.success)
        => last.result.error_len <= ErrorLimit

\* C22: after a save_state of a document without an invalid selection has
\* returned and until the next write, a get_state returns that document, a
\* poll of a wait-mode get_selection that returns gives that document's
\* selection, and a poll goes to sleep only if that document holds no
\* selection newer than the wait
C22_ReadsTheFile ==
    [][(last.op = "save_state" /\ last.res = "ok" /\ NoInvalidSelection(last.doc)) =>
        /\ Returns("get_state") => last'.doc = last.doc
        /\ (wait.active /\ ~wait'.active /\ last'.res = "selection")
               => last'.sel = last.doc["selection"]
        /\ (wait.active /\ wait'.active /\ wait' # wait)
               => ~Fresh(DocGet(last.doc, "selection"), wait.start_time)]_vars
C22_Witness ==
    /\ last.op = "get_selection_wait" /\ last.res = "selection"
    /\ last.start_time = 0 /\ last.sel = Selection("a.py", 1)

\* C23: get_state on a state file that holds undecodable bytes, text that is
\* no JSON, or JSON that is no object returns the empty document and leaves
\* the file's bytes at the backup path
C23_MalformedBackedUp ==
    [][(Returns("get_state") /\ Malformed(fs)) =>
        /\ last'.doc = EmptyDoc
        /\ fs'[backup_path] = fs[STATE_FILE]]_vars

\* C24: get_state on a valid object whose selection is not a mapping with the
\* five required fields returns the document without the selection key, every
\* other key intact, and persists that document
C24_OnlySelectionRemoved ==
    [][(Returns("get_state") /\ Parses(fs) /\ ~NoInvalidSelection(StoredDoc(fs))) =>
        /\ last'.doc = Pop(StoredDoc(fs), "selection")
        /\ Parses(fs') /\ StoredDoc(fs') = Pop(StoredDoc(fs), "selection")]_vars

\* C25: a navigate_to_line, navigate_to_text or navigate_to_function call
\* without its path, or without its line / text / name, returns an error text
\* and leaves the state file as it was; line 0 is a given line (the command is
\* sent with target 0), an empty text or name is a missing one
C25_MissingParameter ==
    [][(last'.op = "call_tool" /\ last'.name \in NavigateTools
            /\ IsMapping(last'.arguments)) =>
        LET arguments == last'.arguments
            key == IF last'.name = "navigate_to_line" THEN "line"
                   ELSE IF last'.name = "navigate_to_text" THEN "text" ELSE "name"
            lacks == \/ "path" \notin DOMAIN arguments
                     \/ key \notin DOMAIN arguments
                     \/ (key # "line" /\ arguments[key] = Str(""))
        IN /\ lacks => (Head(last'.text) = "Error:" /\ fs' = fs)
           /\ (~lacks /\ arguments["path"] = ArgPath(<<TexFile>>) /\ ~Corrupted(fs)) =>
                  /\ Head(last'.text) = "Navigation command sent:"
                  /\ StoredDoc(fs')["navigation"].target = arguments[key]]_vars
C25_Witness ==
    /\ last.op = "call_tool" /\ last.name = "navigate_to_text"
    /\ last.arguments = [path |-> ArgPath(<<TexFile>>), line |-> Num(0),
                         text |-> Str(""), name |-> Str("")]
    /\ last.text = <<"Error:", "ValueError">>
    /\ Parses(fs) /\ IsFull(StoredDoc(fs)["selection"])
    /\ Has(StoredDoc(fs), "navigation")
    /\ StoredDoc(fs)["navigation"].target = Num(0)

\* C26: a wait-mode get_selection that returns a selection with
\* clear_after_read true leaves the document without the selection key and
\* with every other key as it was; with clear_after_read false it writes
\* nothing, and the wait that follows it does not return that selection
C26_WaitClear ==
    [][/\ (wait.active /\ ~wait'.active /\ last'.res = "selection") =>
           IF wait.clear_after_read
           THEN /\ Parses(fs') /\ ~Has(StoredDoc(fs'), "selection")
                /\ \A k \in Keys \ {"selection"} : StoredDoc(fs')[k] = StoredDoc(fs)[k]
           ELSE fs' = fs /\ StoredSelection(fs') = last'.sel
       /\ (wait.active /\ last.op = "get_selection_wait" /\ last.res = "selection"
              /\ ~last.clear /\ StoredSelection(fs) = last.sel)
           => (~wait'.active => (last'.res = "timeout" /\ fs' = fs))]_vars
C26_Witness ==
    /\ last.op = "get_selection_wait" /\ last.res = "selection" /\ last.clear
    /\ Parses(fs) /\ ~Has(StoredDoc(fs), "selection")
    /\ StoredDoc(fs)["theme"] = Str("dark")


\* C27: a wait-mode get_selection cancelled while suspended between two polls
\* ends at once: the cancellation is not turned into a text result, the state
\* file is left as it was, and the call makes no further pass of its loop
C27_CancelEndsWait ==
    [][(wait.active /\ ~wait'.active /\ last'.res \notin {"selection", "timeout"}) =>
        /\ last'.res = "cancelled"
        /\ fs' = fs
        /\ wait' = NoWait]_vars
C27_Witness ==
    /\ last.op = "get_selection_wait" /\ last.res = "cancelled" /\ last.clear
    /\ ~wait.active
    /\ IsFull(StoredSelection(fs))
    /\ StoredSelection(fs).timestamp > last.start_time

\* C29: list_files denies a path that resolves outside the root whether or
\* not it exists, then reports a path that is absent, then a path that is a
\* file; for a directory it returns the entries that do not begin with a dot,
\* each once, in ascending order of name
C29_ListingOrder ==
    last.op = "list_files" =>
        LET target == Resolve(BASE_DIR \o last.path)
        IN IF ~StartsWith(target, BASE_DIR) THEN last.res = "denied"
           ELSE IF target \notin Dirs \cup RegularFiles THEN last.res = "not_found"
           ELSE IF target \notin Dirs THEN last.res = "not_a_directory"
           ELSE /\ last.res = "listed"
                /\ {last.items[i].name : i \in 1..Len(last.items)}
                       = {e[Len(e)] : e \in {c \in Children(target) : ~Hidden(c)}}
                /\ \A i, j \in 1..Len(last.items) :
                       i < j => StrLess(last.items[i].name, last.items[j].name)

\* C30: for the same path the tool side and the HTTP side both deny or both
\* do not, a listing of one is the listing of the other, and a file read by
\* one is read by the other with the same is_text, which is true exactly
\* when the file has no NUL byte
C30_SidesAgree ==
    /\ last.op = "list_files" =>
           LET http == GatewayResult("/api/files", last.path, handle_files_api(last.path))
           IN /\ (last.res = "denied") <=> (http.res = "denied")
              /\ (last.res = "listed" \/ http.res = "listed")
                     => (last.res = http.res /\ last.items = http.items)
    /\ last.op = "read_file" =>
           LET http == GatewayResult("/api/file-content", last.path,
                                     handle_file_content_api(last.path))
           IN /\ (last.res = "denied") <=> (http.res = "denied")
              /\ (last.res = "read" \/ http.res = "read")
                     => /\ last.res = http.res /\ last.is_text = http.is_text
                        /\ last.is_text <=> (\A i \in 1..Len(Bytes(last.at)) :
                                                 Bytes(last.at)[i] # NUL)

\* C31: a selection that get_state or get_selection returns has start_line
\* at least 1 and end_line at least start_line
C31_LineBounds ==
    LET InBounds(sel) == sel.start_line >= 1 /\ sel.end_line >= sel.start_line
    IN /\ (last.op = "get_state" /\ IsFull(last.doc["selection"]))
              => InBounds(last.doc["selection"])
       /\ (last.op = "get_selection" /\ last.res = "selection" /\ IsFull(last.sel))
              => InBounds(last.sel)

\* C32: after a save_state call has returned, with the document saved or
\* with one of its steps having raised, no file is at the temporary path
C32_NoTemporaryLeft ==
    last.op = "save_state" => ~fs[temp_file].exists

\* C33: corruption recovery moves only a malformed file to the backup path:
\* a well-formed document that another process put at the state path after
\* get_state's failed parse is never renamed to the backup path
C33_OnlyMalformedMoved ==
    fs[backup_path].exists => JsonLoad(fs[backup_path].data).err # "none"

\* C34: the bytes that a recovery put at the backup path stay there: no later
\* step, a later recovery included, replaces or removes them
C34_BackupKept ==
    [][fs[backup_path].exists => fs'[backup_path] = fs[backup_path]]_vars

\* C35: a pass of the wait loop that returns no selection, and the return by
\* timeout, write nothing when the state file holds a document without an
\* invalid selection; an immediate get_selection that follows the timeout
\* returns the full selection that is stored
C35_TimeoutWritesNothing ==
    [][/\ (wait.active /\ wait' # wait /\ (wait'.active \/ last'.res = "timeout")
              /\ Parses(fs) /\ NoInvalidSelection(StoredDoc(fs)))
           => fs' = fs
       /\ (last.op = "get_selection_wait" /\ last.res = "timeout"
              /\ Returns("get_selection") /\ last' # last /\ IsFull(StoredSelection(fs)))
           => (last'.res = "selection" /\ last'.sel = StoredSelection(fs))]_vars
C35_Witness ==
    /\ last.op = "get_selection_wait" /\ last.res = "timeout" /\ last.timeout > 0
    /\ ~wait.active
    /\ IsFull(StoredSelection(fs))
    /\ StoredSelection(fs).timestamp <= last.start_time

\* C36: a child is spawned only when no handle is held, and the spawn writes
\* server_url and server_pid; a held handle is cleared only by
\* stop_http_server; open_viewer with a handle held spawns nothing and, on a
\* document with no invalid selection, writes nothing
C36_OneChild ==
    [][/\ (HTTP_SERVER_PROCESS' = 1 /\ HTTP_SERVER_PROCESS # 1) =>
              /\ HTTP_SERVER_PROCESS = 0
              /\ Parses(fs')
              /\ StoredDoc(fs')["server_url"] = ServerUrl
              /\ StoredDoc(fs')["server_pid"] = Num(1)
       /\ (HTTP_SERVER_PROCESS # 0 /\ HTTP_SERVER_PROCESS' = 0) => last'.op = "main_ends"
       /\ (HTTP_SERVER_PROCESS # 0 /\ last'.op = "open_viewer"
              /\ Parses(fs) /\ NoInvalidSelection(StoredDoc(fs)))
           => fs' = fs]_vars
C36_Witness ==
    /\ last.op = "open_viewer" /\ HTTP_SERVER_PROCESS = 2
    /\ Parses(fs) /\ StoredDoc(fs)["theme"] = Str("dark")
    /\ ~Has(StoredDoc(fs), "server_pid")

\* C37: when main ends, however app.run ended, stop_http_server has run: no
\* handle is held and no child of this process runs, a child that outlived
\* the wait having been killed; the open_viewer that follows spawns a child
C37_StoppedAtExit ==
    [][/\ last'.op = "main_ends" =>
              /\ HTTP_SERVER_PROCESS' = 0
              /\ last'.child # "running"
              /\ last'.killed => last'.held = 1
       /\ (last.op = "main_ends" /\ last'.op = "open_viewer") => HTTP_SERVER_PROCESS' = 1]_vars
C37_Witness ==
    /\ last.op = "main_ends" /\ last.reason = "cancelled" /\ last.held = 1 /\ last.killed
    /\ HTTP_SERVER_PROCESS = 0
    /\ Parses(fs) /\ StoredDoc(fs)["server_pid"] = Num(1)

====
